---- MODULE Spec2Model ----
(***************************************************************************)
(* Model of the daily survival video generator (main.py, make_video.py).   *)
(*                                                                         *)
(* Three specifications share the module:                                  *)
(*   SpecSrt  the caption builder make_srt as a pure function              *)
(*   SpecBV   the clip assembler build_video, one loop iteration per step  *)
(*   Spec     one run of main(), for both variants of the program          *)
(***************************************************************************)
EXTENDS Integers, Sequences, FiniteSets, TLC

(***************************************************************************)
(* Program constants.                                                      *)
(***************************************************************************)
TARGET_SECONDS == 30
MIN_CLIP == 5
MAX_CLIP == 12
MAX_DOWNLOADS == 6

(***************************************************************************)
(* Bounds of the model.                                                    *)
(***************************************************************************)
\* the longest text given to make_srt, counted in sentence pieces
MaxPieces == 7
\* the most candidate clips handed to build_video
MaxClips == 3
\* the most subscribers in the subscribers file
MaxSubs == 3
\* the most comma-separated fields of TARGET_CHAT
MaxTargets == 2
\* the most candidate clips build_video is called on by itself
MaxCandidates == 4
\* the most file variants of one search result
MaxVariants == 3

\* durations (seconds) a candidate clip may turn out to have
Durations == {0, 3, 4, 8, MAX_CLIP, 20}
\* total_seconds values given to make_srt
SrtSeconds == {10, TARGET_SECONDS}
\* the pieces texts are put together from
Pieces == {<<"a", ".", " ">>, <<"a">>, <<" ">>, <<"?">>}

VARIABLES
    \* make_srt: its arguments and the cues it returned
    srtPc, srtText, srtSeconds, srtCues,
    \* gen_tts: its inputs (settings, platform, engine outcomes) and result
    ttsPc, ttsArgs, ttsRes,
    \* fetch_stock_clips on one search result: the result's video_files,
    \* the list choose_video_files made of it, the variant picked (<<>> when
    \* the result is skipped, else <<variant>>)
    pickPc, pickItem, pickFiles, pick,
    \* build_video: position, number of candidate paths, loop index, what
    \* each visited candidate turned out to be, the accumulated segments,
    \* the running total, the open decode handles, the encode step's status
    bvPc, clips, bvI, bvSeen, vclips, total, handles, bvWrote,
    \* main: which program runs, position, the exception in flight ("none"
    \* when there is none), workspace, files of the output directory,
    \* duration of the written video, topic, the text-generation response,
    \* script, search calls made, steps begun, recipients, loop index, sends
    variant, pc, error, work, outdir, mp4Dur, topic, ollama, script, queries,
    steps, subs, targets, sendI, sent

srtVars == <<srtPc, srtText, srtSeconds, srtCues>>
ttsVars == <<ttsPc, ttsArgs, ttsRes>>
pickVars == <<pickPc, pickItem, pickFiles, pick>>
bvVars == <<bvPc, clips, bvI, bvSeen, vclips, total, handles, bvWrote>>
mainVars == <<variant, pc, error, work, outdir, mp4Dur, topic, ollama, script,
              queries, steps, subs, targets, sendI, sent>>
vars == <<srtVars, ttsVars, pickVars, bvVars, mainVars>>

Min2(a, b) == IF a <= b THEN a ELSE b
Max2(a, b) == IF a >= b THEN a ELSE b
SetMin(S) == CHOOSE x \in S : \A y \in S : x <= y
SetMax(S) == CHOOSE x \in S : \A y \in S : x >= y

(***************************************************************************)
(* Python floats (IEEE-754 binary64), for the values make_srt computes.    *)
(*                                                                         *)
(* A non-negative number is held exactly as a fixed-point integer of four  *)
(* limbs <<l0, l1, l2, l3>> in base 2^20, little-endian, scaled by 2^60:   *)
(* value = l3 + l2/2^20 + l1/2^40 + l0/2^60.  Every double in [2^-6, 2^20) *)
(* with a 53-bit significand is such a number, so is every exact sum of    *)
(* two of them, and every product of one below 1 with 1000.  RoundDouble   *)
(* rounds an exact result to the nearest double, ties to even, which is    *)
(* what each float operation of the code yields.                           *)
(***************************************************************************)
Base == 2^20
NLimbs == 4
\* significand bits of a Python float
MantBits == 53

FromInt(n) == <<0, 0, 0, n>>
IntPart(X) == X[NLimbs]
FracPart(X) == [X EXCEPT ![NLimbs] = 0]

RECURSIVE LAddFrom(_, _, _, _)
LAddFrom(X, Y, i, c) ==
    IF i > NLimbs THEN <<>>
    ELSE LET s == X[i] + Y[i] + c
         IN  <<s % Base>> \o LAddFrom(X, Y, i + 1, s \div Base)
LAdd(X, Y) == LAddFrom(X, Y, 1, 0)

RECURSIVE LMulFrom(_, _, _, _)
LMulFrom(X, k, i, c) ==
    IF i > NLimbs THEN <<>>
    ELSE LET s == X[i] * k + c
         IN  <<s % Base>> \o LMulFrom(X, k, i + 1, s \div Base)
LMulSmall(X, k) == LMulFrom(X, k, 1, 0)

\* X < Y
LLess(X, Y) ==
    \E i \in 1..NLimbs :
        /\ X[i] < Y[i]
        /\ \A j \in (i + 1)..NLimbs : X[j] = Y[j]

\* number of bits of a limb value v: the least j with v < 2^j
LimbBits(v) == CHOOSE j \in 0..20 : v < 2^j /\ (j = 0 \/ v >= 2^(j - 1))

BitLen(X) ==
    LET nz == {i \in 1..NLimbs : X[i] # 0}
    IN  IF nz = {} THEN 0
        ELSE LET k == SetMax(nz) IN 20 * (k - 1) + LimbBits(X[k])

\* round to nearest double, ties to even; sticky: the exact value lies
\* strictly above X (a division's remainder was not zero)
RoundDouble(X, sticky) ==
    LET drop == BitLen(X) - MantBits
    IN  IF drop <= 0 THEN X
        ELSE LET p      == 2^drop
                 low    == X[1] % p
                 half   == p \div 2
                 odd    == (X[1] \div p) % 2 = 1
                 down   == [X EXCEPT ![1] = X[1] - low]
                 up     == LAdd(down, <<p, 0, 0, 0>>)
                 roundUp == \/ low > half
                            \/ low = half /\ (sticky \/ odd)
             IN  IF roundUp THEN up ELSE down

\* a / b for Python ints a, b (true division): the nearest double to a/b
RECURSIVE LDivFrom(_, _, _)
LDivFrom(r, b, i) ==
    IF i = 0 THEN [q |-> <<>>, r |-> r]
    ELSE LET cur  == r * Base
             rest == LDivFrom(cur % b, b, i - 1)
         IN  [q |-> Append(rest.q, cur \div b), r |-> rest.r]
FDivInt(a, b) ==
    LET low == LDivFrom(a % b, b, NLimbs - 1)
    IN  RoundDouble(Append(low.q, a \div b), low.r # 0)

\* x + y for floats
FAdd(X, Y) == RoundDouble(LAdd(X, Y), FALSE)

\* x * k for a float x and a small int k
FMulInt(X, k) == RoundDouble(LMulSmall(X, k), FALSE)

(***************************************************************************)
(* Text: a string is a sequence of one-character strings.  "a" stands for  *)
(* any character that is neither whitespace nor one of . ! ?               *)
(***************************************************************************)
IsSpace(c) == c = " "
IsTerm(c) == c \in {".", "!", "?"}

\* str.strip()
Strip(s) ==
    LET keep == {i \in 1..Len(s) : ~IsSpace(s[i])}
    IN  IF keep = {} THEN <<>> ELSE SubSeq(s, SetMin(keep), SetMax(keep))

\* re.split(r'(?<=[.!?])\s+', text): a separator is a maximal run of
\* whitespace that directly follows a terminator
RECURSIVE ReSplitFrom(_, _, _)
ReSplitFrom(text, i, cur) ==
    IF i > Len(text) THEN <<cur>>
    ELSE IF IsSpace(text[i]) /\ i > 1 /\ IsTerm(text[i - 1])
         THEN LET after == {j \in i..Len(text) : ~IsSpace(text[j])}
                  next  == IF after = {} THEN Len(text) + 1 ELSE SetMin(after)
              IN  <<cur>> \o ReSplitFrom(text, next, <<>>)
         ELSE ReSplitFrom(text, i + 1, Append(cur, text[i]))
ReSplit(text) == ReSplitFrom(text, 1, <<>>)

\* chunks = [c.strip() for c in re.split(...) if c.strip()], or [text.strip()]
Chunks(text) ==
    LET parts    == ReSplit(text)
        stripped == [i \in 1..Len(parts) |-> Strip(parts[i])]
        chunks   == SelectSeq(stripped, LAMBDA c : c # <<>>)
    IN  IF chunks = <<>> THEN <<Strip(text)>> ELSE chunks

(***************************************************************************)
(* make_srt.  A timestamp is <<h, m, s, ms>>, the four fields of           *)
(* "HH:MM:SS,mmm".  The subtractions t - h*3600, t - m*60 and t - s are    *)
(* exact in floating point (each takes whole seconds off t), so fmt reads  *)
(* them off the integer part; (t - s) * 1000 is rounded, then truncated.   *)
(***************************************************************************)
fmt(t) ==
    LET whole == IntPart(t)
        h  == whole \div 3600
        m  == (whole % 3600) \div 60
        s  == whole % 60
        ms == IntPart(FMulInt(FracPart(t), 1000))
    IN  <<h, m, s, ms>>

\* end = min(total_seconds, cur + per)
CueEnd(total_seconds, cur, per) ==
    LET e == FAdd(cur, per)
    IN  IF LLess(e, FromInt(total_seconds)) THEN e ELSE FromInt(total_seconds)

RECURSIVE CuesFrom(_, _, _, _, _)
CuesFrom(chunks, i, cur, per, total_seconds) ==
    IF i > Len(chunks) THEN <<>>
    ELSE LET end == CueEnd(total_seconds, cur, per)
         IN  <<[idx |-> i, start |-> fmt(cur), end |-> fmt(end), text |-> chunks[i]]>>
             \o CuesFrom(chunks, i + 1, end, per, total_seconds)

make_srt(text, total_seconds) ==
    LET chunks == Chunks(text)
        per    == FDivInt(total_seconds, Len(chunks))
    IN  CuesFrom(chunks, 1, FromInt(0), per, total_seconds)

(***************************************************************************)
(* Every part at rest: the values before a part is entered.                *)
(***************************************************************************)
NoHandles == [audio |-> FALSE, clips |-> {}, video |-> FALSE]

SrtIdle ==
    /\ srtPc = "idle" /\ srtText = <<>> /\ srtSeconds = 0 /\ srtCues = <<>>
TtsIdle ==
    /\ ttsPc = "idle"
    /\ ttsArgs = [variant |-> "main", backend |-> "", darwin |-> FALSE,
                  edgeOk |-> FALSE, sayOk |-> FALSE]
    /\ ttsRes = [tried |-> <<>>, ok |-> FALSE]
PickIdle ==
    /\ pickPc = "idle" /\ pickItem = <<>> /\ pickFiles = <<>> /\ pick = <<>>
BvIdle ==
    /\ bvPc = "idle" /\ clips = 0 /\ bvI = 0 /\ bvSeen = <<>> /\ vclips = <<>>
    /\ total = 0 /\ handles = NoHandles /\ bvWrote = "no"
MainIdle ==
    /\ variant = "main" /\ pc = "unit" /\ error = "none" /\ work = "none"
    /\ outdir = {} /\ mp4Dur = 0 /\ topic = <<>> /\ script = <<>>
    /\ ollama = [kind |-> "none", content |-> <<>>]
    /\ queries = 0 /\ steps = <<>> /\ subs = <<>> /\ targets = <<>>
    /\ sendI = 0 /\ sent = <<>>

(***************************************************************************)
(* SpecSrt: make_srt applied to bounded texts and durations.               *)
(***************************************************************************)
RECURSIVE TextsUpTo(_)
TextsUpTo(k) ==
    IF k = 0 THEN {<<>>}
    ELSE LET shorter == TextsUpTo(k - 1)
         IN  shorter \cup {t \o p : t \in shorter, p \in Pieces}
Texts == TextsUpTo(MaxPieces)

InitSrt ==
    /\ srtPc = "ready"
    /\ srtText \in Texts
    /\ srtSeconds \in SrtSeconds
    /\ srtCues = <<>>
    /\ TtsIdle /\ PickIdle /\ BvIdle /\ MainIdle

CallMakeSrt ==
    /\ srtPc = "ready"
    /\ srtCues' = make_srt(srtText, srtSeconds)
    /\ srtPc' = "done"
    /\ UNCHANGED <<srtText, srtSeconds, ttsVars, bvVars, mainVars>>
    /\ UNCHANGED pickVars

NextSrt == CallMakeSrt
SpecSrt == InitSrt /\ [][NextSrt]_vars

\* C1 (as stated): make_srt emits one cue per chunk, numbered 1..n in chunk
\* order, the first starting at 0, the last ending at exactly T, each cue
\* ending where the next starts.
CuesTileTarget ==
    srtPc = "done" =>
        LET chunks == Chunks(srtText)
            n      == Len(chunks)
        IN  /\ n >= 1
            /\ Len(srtCues) = n
            /\ \A i \in 1..n : srtCues[i].idx = i /\ srtCues[i].text = chunks[i]
            /\ srtCues[1].start = <<0, 0, 0, 0>>
            /\ srtCues[n].end = <<0, 0, srtSeconds, 0>>
            /\ \A i \in 1..(n - 1) : srtCues[i].end = srtCues[i + 1].start

(***************************************************************************)
(* build_video.  A candidate is a path; what the file holds is found out   *)
(* when the loop opens it: VideoFileClip fails ("undecodable"), the clip   *)
(* opens and subclip/without_audio fails ("broken"), or the clip opens     *)
(* with a duration and yields a segment ("ok").                            *)
(***************************************************************************)
Outcomes ==
    {[res |-> "undecodable", dur |-> 0], [res |-> "broken", dur |-> 0]}
    \cup {[res |-> "ok", dur |-> d] : d \in Durations}

RECURSIVE SumLen(_)
SumLen(segs) == IF segs = <<>> THEN 0 ELSE segs[1].len + SumLen(Tail(segs))

\* seg = min(MAX_CLIP, max(MIN_CLIP, dur if dur < MAX_CLIP else MAX_CLIP))
SegBound(dur) ==
    Min2(MAX_CLIP, Max2(MIN_CLIP, IF dur < MAX_CLIP THEN dur ELSE MAX_CLIP))

\* the mutant: the segment end is seg, not min(seg, dur)
SubclipEndPadded(dur) == SegBound(dur)
\* sub = vc.subclip(0, min(seg, dur)): the segment runs from 0 to this
SubclipEnd(dur) == Min2(SegBound(dur), dur)

\* the mutant: the emptiness check is missing
NoCheckOfVclips(segs) == FALSE
\* if not vclips: raise RuntimeError
NoUsableClips(segs) == segs = <<>>

\* the mutant: the loop has no break
NeverReached(tot) == FALSE
\* if total >= target: break
ReachedTarget(tot) == tot >= TARGET_SECONDS

\* concatenate_videoclips(vclips, method="compose"): the segments in order,
\* lasting as long as their sum
Concatenate(segs) == [segs |-> segs, duration |-> SumLen(segs)]

\* the mutant: the duration is left as concatenated
KeepDuration(v, t) == v
\* clip.set_duration(t)
SetDuration(v, t) == [v EXCEPT !.duration = t]

\* the cleanup after a successful write: every accumulated segment's clip,
\* the audio and the concatenated video are closed
AfterCleanup(h, segs) ==
    [audio |-> FALSE,
     clips |-> h.clips \ {segs[k].clip : k \in 1..Len(segs)},
     video |-> FALSE]

\* where main goes on when build_video returns or raises
AfterBuild(at, ok) ==
    IF at # "build" THEN at ELSE IF ok THEN "captions" ELSE "finally"

\* the exception main sees when build_video raises inside a run
Raised(at, what) == IF at = "build" THEN what ELSE "none"

\* audio = AudioFileClip(str(voice_mp3))
BVOpenAudio ==
    /\ bvPc = "start"
    /\ \E ok \in BOOLEAN :
        IF ok
        THEN /\ handles' = [handles EXCEPT !.audio = TRUE]
             /\ bvPc' = IF clips = 0 THEN "assemble" ELSE "loop"
             /\ UNCHANGED <<pc, error>>
        ELSE /\ bvPc' = "raised"
             /\ pc' = AfterBuild(pc, FALSE)
             /\ error' = Raised(pc, "audio_open")
             /\ UNCHANGED handles
    /\ steps' = IF pc = "build" THEN Append(steps, "assembly") ELSE steps
    /\ UNCHANGED <<clips, bvI, bvSeen, vclips, total, bvWrote>>
    /\ UNCHANGED <<srtVars, ttsVars>>
    /\ UNCHANGED <<variant, work, outdir, mp4Dur, topic, ollama, script,
                   queries, subs, targets, sendI, sent>>
    /\ UNCHANGED pickVars

\* one iteration of "for p in clips"
BVVisit ==
    /\ bvPc = "loop"
    /\ bvI < clips
    /\ \E o \in Outcomes :
        LET i      == bvI + 1
            sub    == [clip |-> i, start |-> 0, len |-> SubclipEnd(o.dur)]
            newTot == total + sub.len
        IN  /\ bvI' = i
            /\ bvSeen' = Append(bvSeen, o)
            /\ handles' = IF o.res = "undecodable" THEN handles
                          ELSE [handles EXCEPT !.clips = @ \cup {i}]
            /\ IF o.res = "ok"
               THEN /\ vclips' = Append(vclips, sub)
                    /\ total' = newTot
                    /\ bvPc' = IF ReachedTarget(newTot) \/ i = clips
                               THEN "assemble" ELSE "loop"
               ELSE /\ UNCHANGED <<vclips, total>>
                    /\ bvPc' = IF i = clips THEN "assemble" ELSE "loop"
    /\ UNCHANGED <<clips, bvWrote>>
    /\ UNCHANGED <<srtVars, ttsVars, mainVars>>
    /\ UNCHANGED pickVars

\* after the loop: the emptiness check, concatenation, forcing the
\* duration, the narration as audio, the encode and write, the cleanup
BVAssemble ==
    /\ bvPc = "assemble"
    /\ IF NoUsableClips(vclips)
       THEN /\ bvPc' = "raised"
            /\ pc' = AfterBuild(pc, FALSE)
            /\ error' = Raised(pc, "no_usable_clips")
            /\ UNCHANGED <<handles, bvWrote, outdir, mp4Dur>>
       ELSE LET video == SetDuration(Concatenate(vclips), TARGET_SECONDS)
            IN  \E written \in BOOLEAN :
                  IF written
                  THEN /\ bvWrote' = "ok"
                       /\ outdir' = outdir \cup {"mp4"}
                       /\ mp4Dur' = video.duration
                       /\ handles' = AfterCleanup(handles, vclips)
                       /\ bvPc' = "returned"
                       /\ pc' = AfterBuild(pc, TRUE)
                       /\ UNCHANGED error
                  ELSE /\ bvWrote' = "failed"
                       /\ handles' = [handles EXCEPT !.video = TRUE]
                       /\ bvPc' = "raised"
                       /\ pc' = AfterBuild(pc, FALSE)
                       /\ error' = Raised(pc, "encode")
                       /\ UNCHANGED <<outdir, mp4Dur>>
    /\ UNCHANGED <<clips, bvI, bvSeen, vclips, total>>
    /\ UNCHANGED <<srtVars, ttsVars>>
    /\ UNCHANGED <<variant, work, topic, ollama, script, queries, steps,
                   subs, targets, sendI, sent>>
    /\ UNCHANGED pickVars

(***************************************************************************)
(* SpecBV: build_video called on any list of up to MaxCandidates paths.    *)
(***************************************************************************)
InitBV ==
    /\ bvPc = "start"
    /\ clips \in 0..MaxCandidates
    /\ bvI = 0 /\ bvSeen = <<>> /\ vclips = <<>> /\ total = 0
    /\ handles = NoHandles /\ bvWrote = "no"
    /\ SrtIdle /\ TtsIdle /\ PickIdle /\ MainIdle

NextBV == BVOpenAudio \/ BVVisit \/ BVAssemble
SpecBV == InitBV /\ [][NextBV]_vars

(***************************************************************************)
(* Script generation.  The response of the text-generation call is one of: *)
(* no response (network error, timeout), a non-success status, a body that *)
(* is not JSON, "message": null, no "content" key, "content": null, or a   *)
(* content string.                                                         *)
(***************************************************************************)
Topics == {<<"a">>, <<"a", " ", "a">>}
Contents == {<<>>, <<" ">>, <<"a", ".">>, <<" ", "a", ".", " ", "a", "?", " ">>}
Responses ==
    {[kind |-> k, content |-> <<>>] :
        k \in {"network_error", "http_error", "bad_json", "message_null",
               "no_content", "content_null"}}
    \cup {[kind |-> "content", content |-> c] : c \in Contents}

\* five sentences, the first of them naming the topic
script_from_template(t) ==
    <<"a", " ">> \o t \o <<".", " ", "a", ".", " ", "a", ".", " ",
                             "a", ".", " ", "a", ".">>

\* the mutant: no fallback, the failure of the call is raised
gen_script_no_fallback(v, t, resp) ==
    IF resp.kind = "content" /\ Strip(resp.content) # <<>>
    THEN [raised |-> FALSE, text |-> Strip(resp.content)]
    ELSE [raised |-> TRUE, text |-> <<>>]
\* gen_script_ollama of program v: what it returns, or that it raises.
\* main.py catches every exception itself; make_video.py lets the
\* request's, the status's and the parse's exceptions out, and those of
\* .get and .strip on null.
gen_script_ollama(v, t, resp) ==
    LET text == IF resp.kind = "content" THEN Strip(resp.content) ELSE <<>>
        raises ==
            IF v = "main"
            THEN resp.kind \in {"network_error", "http_error", "bad_json",
                                "content_null"}
            ELSE resp.kind \in {"network_error", "http_error", "bad_json",
                                "message_null", "content_null"}
        caught == v = "main"
    IN  IF raises
        THEN IF caught THEN [raised |-> FALSE, text |-> script_from_template(t)]
                       ELSE [raised |-> TRUE, text |-> <<>>]
        ELSE [raised |-> FALSE,
              text |-> IF text # <<>> THEN text ELSE script_from_template(t)]

\* step 1 of main: make_video.py wraps the call in its own try/except
ScriptStep(v, t, resp) ==
    LET r == gen_script_ollama(v, t, resp)
    IN  IF r.raised
        THEN IF v = "make_video"
             THEN [raised |-> FALSE, text |-> script_from_template(t)]
             ELSE r
        ELSE r

(***************************************************************************)
(* Speech synthesis.  backend is the TTS_BACKEND setting as gen_tts reads  *)
(* it: "say", "edge", "" (not set) or "other" (any other value); darwin    *)
(* says whether the platform is macOS; edgeOk and sayOk say whether the    *)
(* cloud engine and the local engine succeed when run.  The result names   *)
(* the engines run, in order, and whether an audio file was produced       *)
(* (otherwise gen_tts raises).                                             *)
(***************************************************************************)
Backends == {"say", "edge", "", "other"}

TtsSay(darwin, sayOk) ==
    IF ~darwin THEN [tried |-> <<>>, ok |-> FALSE]
    ELSE [tried |-> <<"say">>, ok |-> sayOk]

TtsEdgeThenSay(darwin, edgeOk, sayOk) ==
    IF edgeOk THEN [tried |-> <<"edge">>, ok |-> TRUE]
    ELSE IF darwin THEN [tried |-> <<"edge", "say">>, ok |-> sayOk]
    ELSE [tried |-> <<"edge">>, ok |-> FALSE]

\* the mutant: the forced cloud engine falls back like the default
gen_tts_edge_falls_back(v, backend, darwin, edgeOk, sayOk) ==
    IF backend = "say" THEN TtsSay(darwin, sayOk)
    ELSE TtsEdgeThenSay(darwin, edgeOk, sayOk)
\* gen_tts of program v
gen_tts(v, backend, darwin, edgeOk, sayOk) ==
    IF backend = "say" THEN TtsSay(darwin, sayOk)
    ELSE IF v = "main" /\ backend = "edge"
         THEN [tried |-> <<"edge">>, ok |-> edgeOk]
         ELSE TtsEdgeThenSay(darwin, edgeOk, sayOk)

InitTts ==
    /\ ttsPc = "ready"
    /\ ttsArgs \in [variant : {"main", "make_video"}, backend : Backends,
                    darwin : BOOLEAN, edgeOk : BOOLEAN, sayOk : BOOLEAN]
    /\ ttsRes = [tried |-> <<>>, ok |-> FALSE]
    /\ SrtIdle /\ PickIdle /\ BvIdle /\ MainIdle

CallGenTts ==
    /\ ttsPc = "ready"
    /\ ttsRes' = gen_tts(ttsArgs.variant, ttsArgs.backend, ttsArgs.darwin,
                         ttsArgs.edgeOk, ttsArgs.sayOk)
    /\ ttsPc' = "done"
    /\ UNCHANGED <<ttsArgs, srtVars, bvVars, mainVars>>
    /\ UNCHANGED pickVars

NextTts == CallGenTts
SpecTts == InitTts /\ [][NextTts]_vars

(***************************************************************************)
(* The choice of the file to download.  A search result's video_files is   *)
(* a list of variants; a variant has a file_type and a height, <<h>> for   *)
(* the number h and <<>> for null or a missing key; its link is its place  *)
(* in the list.                                                            *)
(***************************************************************************)
FileTypes == {"video/mp4", "hls"}
RawHeights == {<<>>, <<360>>, <<720>>, <<1080>>}
Variants == [file_type : FileTypes, height : RawHeights]
RECURSIVE ItemsOfLen(_)
ItemsOfLen(k) ==
    IF k = 0 THEN {<<>>}
    ELSE {Append(fs, f) : fs \in ItemsOfLen(k - 1), f \in Variants}
Items == UNION {ItemsOfLen(k) : k \in 0..MaxVariants}

\* int(f.get("height") or 0)
HeightOf(h) == IF h = <<>> THEN 0 ELSE h[1]

\* out.sort(key=lambda x: x[1], reverse=True): the sort is stable, equal
\* heights keep their order
RECURSIVE InsertByHeight(_, _)
InsertByHeight(sorted, x) ==
    IF sorted = <<>> THEN <<x>>
    ELSE IF x.height > sorted[1].height THEN <<x>> \o sorted
    ELSE <<sorted[1]>> \o InsertByHeight(Tail(sorted), x)
RECURSIVE SortByHeightDesc(_)
SortByHeightDesc(out) ==
    IF out = <<>> THEN <<>>
    ELSE InsertByHeight(SortByHeightDesc(SubSeq(out, 1, Len(out) - 1)),
                        out[Len(out)])

\* choose_video_files: the MP4 variants as (link, height), highest first
choose_video_files(files) ==
    LET mp4 == SelectSeq([i \in 1..Len(files) |->
                             [link |-> i, file_type |-> files[i].file_type,
                              height |-> HeightOf(files[i].height)]],
                         LAMBDA f : f.file_type = "video/mp4")
    IN  SortByHeightDesc([i \in 1..Len(mp4) |->
                             [link |-> mp4[i].link, height |-> mp4[i].height]])

\* files[min(1, len(files)-1)], as a place counted from 1
PickIndex(n) == Min2(1, n - 1) + 1

InitPick ==
    /\ pickPc = "ready"
    /\ pickItem \in Items
    /\ pickFiles = <<>> /\ pick = <<>>
    /\ SrtIdle /\ TtsIdle /\ BvIdle /\ MainIdle

\* one iteration of "for v in vids", up to the choice of the file
CallChoose ==
    /\ pickPc = "ready"
    /\ LET files == choose_video_files(pickItem)
       IN  /\ pickFiles' = files
           /\ pick' = IF files = <<>> THEN <<>>
                      ELSE <<files[PickIndex(Len(files))]>>
    /\ pickPc' = "done"
    /\ UNCHANGED <<pickItem, srtVars, ttsVars, bvVars, mainVars>>

NextPick == CallChoose
SpecPick == InitPick /\ [][NextPick]_vars

Mp4Places == {i \in 1..Len(pickItem) : pickItem[i].file_type = "video/mp4"}
Mp4Heights == {HeightOf(pickItem[i].height) : i \in Mp4Places}

\* C13 (as stated): a result with an MP4 variant has one of its MP4 variants
\* chosen, and not the lowest one when its MP4 variants differ in height; a
\* result with no MP4 variant is skipped.
ChosenNotLowest ==
    pickPc = "done" =>
        /\ Mp4Places = {} <=> pick = <<>>
        /\ pick # <<>> =>
            /\ pick[1].link \in Mp4Places
            /\ pick[1].height = HeightOf(pickItem[pick[1].link].height)
            /\ Cardinality(Mp4Heights) >= 2 => pick[1].height > SetMin(Mp4Heights)

(***************************************************************************)
(* main(): one run.  The environment is read-only to the run; a setting    *)
(* is drawn where the code first acts on it.                               *)
(***************************************************************************)
Programs == {"main", "make_video"}

\* the steps of a run, in the order of the code
StepOrder(v) ==
    IF v = "main"
    THEN <<"script", "tts", "footage", "assembly", "captions", "distribution">>
    ELSE <<"script", "tts", "footage", "assembly", "captions">>

\* the directory the narration text is written to
ScriptDir(v) == IF v = "main" THEN "outdir" ELSE "work"

\* the mutant: a failed step does not abort the run
AfterStepNoAbort(ok, next) == next
\* inside the try block: a step that raises leaves for the finally clause
AfterStep(ok, next) == IF ok THEN next ELSE "finally"

\* the mutant: the workspace is removed only when the run succeeded
RmtreeOnSuccess(w, err) == IF err = "none" THEN "deleted" ELSE w
\* finally: shutil.rmtree(work, ignore_errors=True)
Rmtree(w, err) == "deleted"

\* the locals of build_video are gone once main goes on
BvDrop ==
    /\ bvPc' = "idle" /\ clips' = 0 /\ bvI' = 0 /\ bvSeen' = <<>>
    /\ vclips' = <<>> /\ total' = 0 /\ handles' = NoHandles /\ bvWrote' = "no"

InitMain ==
    /\ variant \in Programs
    /\ pc = "start" /\ error = "none" /\ work = "none"
    /\ outdir = {} /\ mp4Dur = 0 /\ topic = <<>> /\ script = <<>>
    /\ ollama = [kind |-> "none", content |-> <<>>]
    /\ queries = 0 /\ steps = <<>> /\ subs = <<>> /\ targets = <<>>
    /\ sendI = 0 /\ sent = <<>>
    /\ SrtIdle /\ TtsIdle /\ PickIdle /\ BvIdle

\* the API key check, the output directory, the workspace, the topic
Setup ==
    /\ pc = "start"
    /\ \E key \in BOOLEAN :
        IF ~key
        THEN /\ error' = "missing_api_key"
             /\ pc' = "done"
             /\ UNCHANGED <<work, topic>>
        ELSE /\ work' = "exists"
             /\ topic' \in Topics
             /\ pc' = "script"
             /\ UNCHANGED error
    /\ UNCHANGED <<variant, outdir, mp4Dur, ollama, script, queries, steps,
                   subs, targets, sendI, sent>>
    /\ UNCHANGED <<srtVars, ttsVars, bvVars>>
    /\ UNCHANGED pickVars

\* 1) the request to the text-generation service, and what comes back
AskOllama ==
    /\ pc = "script"
    /\ steps' = Append(steps, "script")
    /\ ollama' \in Responses
    /\ pc' = "script_response"
    /\ UNCHANGED <<variant, error, work, outdir, mp4Dur, topic, script,
                   queries, subs, targets, sendI, sent>>
    /\ UNCHANGED <<srtVars, ttsVars, bvVars>>
    /\ UNCHANGED pickVars

\* the script made of the response, and the narration-text file
GenScript ==
    /\ pc = "script_response"
    /\ ollama' = [kind |-> "none", content |-> <<>>]
    /\ \E wrote \in BOOLEAN :
        LET r == ScriptStep(variant, topic, ollama)
        IN  IF r.raised
            THEN /\ error' = "script"
                 /\ pc' = AfterStep(FALSE, "tts")
                 /\ UNCHANGED <<script, outdir>>
            ELSE /\ script' = r.text
                 /\ outdir' = IF wrote /\ ScriptDir(variant) = "outdir"
                              THEN outdir \cup {"script"} ELSE outdir
                 /\ error' = IF wrote THEN "none" ELSE "write_script"
                 /\ pc' = AfterStep(wrote, "tts")
    /\ UNCHANGED <<variant, work, mp4Dur, topic, queries, steps, subs,
                   targets, sendI, sent>>
    /\ UNCHANGED <<srtVars, ttsVars, bvVars>>
    /\ UNCHANGED pickVars

\* 2) the narration audio; make_video.py then opens it once for its length
GenTts ==
    /\ pc = "tts"
    /\ steps' = Append(steps, "tts")
    /\ \E backend \in Backends, darwin, edgeOk, sayOk, readable \in BOOLEAN :
        LET r  == gen_tts(variant, backend, darwin, edgeOk, sayOk)
            ok == r.ok /\ (variant = "main" \/ readable)
        IN  /\ error' = IF ok THEN "none" ELSE "tts"
            /\ pc' = AfterStep(ok, "fetch")
    /\ UNCHANGED <<variant, work, outdir, mp4Dur, topic, ollama, script,
                   queries, subs, targets, sendI, sent>>
    /\ UNCHANGED <<srtVars, ttsVars, bvVars>>
    /\ UNCHANGED pickVars

\* what one call of fetch_stock_clips gives: the search raises, or some
\* number of clips is downloaded, at most MAX_DOWNLOADS
FetchResults ==
    {[raised |-> TRUE, n |-> 0]}
    \cup {[raised |-> FALSE, n |-> k] : k \in 0..Min2(MaxClips, MAX_DOWNLOADS)}

\* 3) the footage: the topic's query, then the generic query if that gave
\* nothing, then the fatal error if that gave nothing either; on success
\* 4) build_video is called with the clips
FetchClips ==
    /\ pc = "fetch"
    /\ steps' = Append(steps, "footage")
    /\ \E first \in FetchResults, second \in FetchResults :
        LET again == ~first.raised /\ first.n = 0
            last  == IF again THEN second ELSE first
            ok    == ~last.raised /\ last.n > 0
        IN  /\ queries' = IF again THEN 2 ELSE 1
            /\ error' = IF ok THEN "none"
                        ELSE IF last.raised THEN "search" ELSE "no_clips_found"
            /\ pc' = AfterStep(ok, "build")
            /\ clips' = IF ok THEN last.n ELSE 0
            /\ bvPc' = IF ok THEN "start" ELSE "idle"
    /\ UNCHANGED <<bvI, bvSeen, vclips, total, handles, bvWrote>>
    /\ UNCHANGED <<variant, work, outdir, mp4Dur, topic, ollama, script,
                   subs, targets, sendI, sent>>
    /\ UNCHANGED <<srtVars, ttsVars>>
    /\ UNCHANGED pickVars

\* the scripts a run can hold when it reaches the captions, and
\* make_srt(script, TARGET_SECONDS) of each
Scripts ==
    {script_from_template(t) : t \in Topics}
    \cup ({Strip(c) : c \in Contents} \ {<<>>})
SrtOfScript == [s \in Scripts |-> make_srt(s, TARGET_SECONDS)]

\* 5) the captions and the subtitle file
Captions ==
    /\ pc = "captions"
    /\ steps' = Append(steps, "captions")
    /\ srtCues' = SrtOfScript[script]
    /\ \E wrote \in BOOLEAN :
        /\ outdir' = IF wrote THEN outdir \cup {"srt"} ELSE outdir
        /\ error' = IF wrote THEN "none" ELSE "write_srt"
        /\ pc' = AfterStep(wrote, IF variant = "main" THEN "distribute"
                                                      ELSE "finally")
    /\ BvDrop
    /\ UNCHANGED <<srtPc, srtText, srtSeconds, ttsVars>>
    /\ UNCHANGED <<variant, work, mp4Dur, topic, ollama, script, queries,
                   subs, targets, sendI, sent>>
    /\ UNCHANGED pickVars

\* TARGET_CHAT split at commas: the fields a setting may hold
Fields == {<<>>, <<" ">>, <<"a">>, <<" ", "a">>}
RECURSIVE CsvsOfLen(_)
CsvsOfLen(k) ==
    IF k = 0 THEN {<<>>}
    ELSE {Append(c, f) : c \in CsvsOfLen(k - 1), f \in Fields}
TargetCsvs == UNION {CsvsOfLen(k) : k \in 1..MaxTargets}

\* targets = [t.strip() for t in targets_csv.split(",") if t.strip()]
ParseTargets(csv) ==
    SelectSeq([i \in 1..Len(csv) |-> Strip(csv[i])], LAMBDA t : t # <<>>)

\* the mutant: the loop is left at the first failed send
NextIndexStopOnFailure(i, ok, n) == IF ok THEN i + 1 ELSE n
\* for cid in subscribers / for t in targets: the send is inside a
\* try/except, the loop goes on to the next recipient either way
NextIndex(i, ok, n) == i + 1

\* 6) distribution: without a token nothing is sent; otherwise the
\* subscribers file is loaded (a missing or malformed file gives the empty
\* list) and TARGET_CHAT is parsed
DistStart ==
    /\ pc = "distribute"
    /\ steps' = Append(steps, "distribution")
    /\ \E token \in BOOLEAN :
        IF ~token
        THEN /\ pc' = "finally"
             /\ UNCHANGED <<subs, targets>>
        ELSE \E n \in 0..MaxSubs, csv \in TargetCsvs :
                /\ subs' = [i \in 1..n |-> i]
                /\ targets' = ParseTargets(csv)
                /\ pc' = IF n > 0 THEN "broadcast"
                         ELSE IF ParseTargets(csv) # <<>> THEN "targets"
                         ELSE "finally"
    /\ UNCHANGED <<variant, error, work, outdir, mp4Dur, topic, ollama,
                   script, queries, sendI, sent>>
    /\ UNCHANGED <<srtVars, ttsVars, bvVars>>
    /\ UNCHANGED pickVars

\* broadcast_video: one send to the next subscriber
SendSub ==
    /\ pc = "broadcast"
    /\ \E ok \in BOOLEAN :
        LET j == NextIndex(sendI, ok, Len(subs))
        IN  /\ sent' = Append(sent, [list |-> "subs", idx |-> sendI + 1,
                                     ok |-> ok])
            /\ sendI' = IF j >= Len(subs) THEN 0 ELSE j
            /\ pc' = IF j < Len(subs) THEN "broadcast"
                     ELSE IF targets # <<>> THEN "targets" ELSE "finally"
    /\ UNCHANGED <<variant, error, work, outdir, mp4Dur, topic, ollama,
                   script, queries, steps, subs, targets>>
    /\ UNCHANGED <<srtVars, ttsVars, bvVars>>
    /\ UNCHANGED pickVars

\* send_to_targets: one send to the next explicit target
SendTarget ==
    /\ pc = "targets"
    /\ \E ok \in BOOLEAN :
        LET j == NextIndex(sendI, ok, Len(targets))
        IN  /\ sent' = Append(sent, [list |-> "targets", idx |-> sendI + 1,
                                     ok |-> ok])
            /\ sendI' = IF j >= Len(targets) THEN 0 ELSE j
            /\ pc' = IF j < Len(targets) THEN "targets" ELSE "finally"
    /\ UNCHANGED <<variant, error, work, outdir, mp4Dur, topic, ollama,
                   script, queries, steps, subs, targets>>
    /\ UNCHANGED <<srtVars, ttsVars, bvVars>>
    /\ UNCHANGED pickVars

\* finally: the workspace is removed; the run ends, with the exception in
\* flight if there is one
Finally ==
    /\ pc = "finally"
    /\ work' = Rmtree(work, error)
    /\ pc' = "done"
    /\ BvDrop
    /\ UNCHANGED <<variant, error, outdir, mp4Dur, topic, ollama, script,
                   queries, steps, subs, targets, sendI, sent>>
    /\ UNCHANGED <<srtVars, ttsVars>>
    /\ UNCHANGED pickVars

Next ==
    \/ Setup \/ AskOllama \/ GenScript \/ GenTts \/ FetchClips
    \/ BVOpenAudio \/ BVVisit \/ BVAssemble
    \/ Captions \/ DistStart \/ SendSub \/ SendTarget \/ Finally
Spec == InitMain /\ [][Next]_vars
\* the interpreter runs main to its end
FairSpec == Spec /\ WF_vars(Next)

(***************************************************************************)
(* The claims.                                                             *)
(***************************************************************************)
BvEnded == bvPc \in {"returned", "raised"}
NoneDecoded == \A i \in 1..Len(bvSeen) : bvSeen[i].res # "ok"

\* C2: whenever build_video writes its output, the written video lasts
\* exactly TARGET_SECONDS, whatever the accumulated segments add up to.
OutputLastsTarget ==
    bvWrote = "ok" => "mp4" \in outdir /\ mp4Dur = TARGET_SECONDS

\* C2 witness: an output written from segments that fall short of the target
OutputFromShortTotal ==
    bvWrote = "ok" /\ total > 0 /\ total < TARGET_SECONDS /\ mp4Dur = TARGET_SECONDS

\* C3: build_video run to its end with no candidate decoded into a segment
\* (the empty list included) has raised, has not reached the encode and
\* write step, has written no file, and has tried no candidate twice.
NoSegmentsIsFatal ==
    (BvEnded /\ NoneDecoded) =>
        /\ bvPc = "raised"
        /\ bvWrote = "no"
        /\ "mp4" \notin outdir
        /\ bvI = Len(bvSeen) /\ bvI <= clips

\* C3 witness: every candidate of a non-empty list was tried and none decoded
AllCandidatesFailed ==
    /\ bvPc = "raised" /\ clips > 0 /\ Len(bvSeen) = clips /\ NoneDecoded
    /\ bvWrote = "no" /\ outdir = {}

\* C4: every candidate opened with a duration d has a segment, which starts
\* at 0, lasts MAX_CLIP when d >= MAX_CLIP, lasts d when d < MIN_CLIP, and
\* in every case lasts no longer than MAX_CLIP and no longer than d.
SegmentLengths ==
    /\ \A i \in 1..Len(bvSeen) :
        bvSeen[i].res = "ok" => \E k \in 1..Len(vclips) : vclips[k].clip = i
    /\ \A k \in 1..Len(vclips) :
        LET seg == vclips[k]
            d   == bvSeen[seg.clip].dur
        IN  /\ bvSeen[seg.clip].res = "ok"
            /\ seg.start = 0
            /\ d >= MAX_CLIP => seg.len = MAX_CLIP
            /\ d < MIN_CLIP => seg.len = d
            /\ seg.len <= MAX_CLIP /\ seg.len <= d

\* C4 witness: a short clip kept whole next to a long clip cut to MAX_CLIP
ShortAndLongSegments ==
    /\ \E k \in 1..Len(vclips) :
        bvSeen[vclips[k].clip].dur \in 1..(MIN_CLIP - 1)
        /\ vclips[k].len = bvSeen[vclips[k].clip].dur
    /\ \E k \in 1..Len(vclips) :
        bvSeen[vclips[k].clip].dur > MAX_CLIP /\ vclips[k].len = MAX_CLIP

SentTo(list) == SelectSeq(sent, LAMBDA m : m.list = list)
RunEnding == pc \in {"finally", "done"}

\* C5: the sends are the subscribers in list order, then the targets in
\* list order, each recipient once; a failed send raises nothing; and when
\* distribution is over every recipient of both lists has been attempted.
EveryRecipientOnce ==
    LET toSubs    == SentTo("subs")
        toTargets == SentTo("targets")
    IN  /\ sent = toSubs \o toTargets
        /\ Len(toSubs) <= Len(subs) /\ Len(toTargets) <= Len(targets)
        /\ \A j \in 1..Len(toSubs) : toSubs[j].idx = j
        /\ \A j \in 1..Len(toTargets) : toTargets[j].idx = j
        /\ sent # <<>> => error = "none"
        /\ RunEnding => Len(toSubs) = Len(subs) /\ Len(toTargets) = Len(targets)

\* C5 witness: three subscribers, the second send failed, the first and the
\* third went through, and the run ended without an error
SecondOfThreeFailed ==
    /\ pc = "done" /\ error = "none" /\ Len(subs) = 3 /\ Len(sent) >= 3
    /\ sent[1].ok /\ ~sent[2].ok /\ sent[3].ok /\ sent[3].list = "subs"

\* C6: a workspace that was created is deleted in the end, and no run has
\* ended with its workspace still there.
WorkspaceDeleted ==
    /\ [](pc = "done" => work # "exists")
    /\ (work = "exists") ~> (work = "deleted")

\* C6 witness: a run that failed and has deleted its workspace
FailedRunCleanedUp == pc = "done" /\ error # "none" /\ work = "deleted"

FatalErrors == {"missing_api_key", "no_clips_found", "no_usable_clips"}

\* C7 (as stated): a run stopped by a fatal error (API key missing, no
\* footage after two queries, no usable segment) has written no file to the
\* output directory.
FatalLeavesNoOutput ==
    (pc = "done" /\ error \in FatalErrors) => outdir = {}

IsPrefix(a, b) == Len(a) <= Len(b) /\ a = SubSeq(b, 1, Len(a))

\* C8: the steps begin in the order of the code, each at most once; once a
\* step has failed the run is on its way out and begins no other; captions
\* are begun or written, and a recipient is contacted, only with the video
\* file written.
StepsInOrder ==
    /\ IsPrefix(steps, StepOrder(variant))
    /\ error # "none" => pc \in {"finally", "done"}
    /\ (Len(steps) >= 5 \/ "srt" \in outdir \/ sent # <<>>) => "mp4" \in outdir
    /\ (pc \in {"tts", "fetch", "build"} \/ Len(steps) >= 2) => script # <<>>

\* C8 witness: a run of main.py through all six steps, with a send
FullRun ==
    /\ pc = "done" /\ variant = "main" /\ steps = StepOrder("main")
    /\ sent # <<>> /\ outdir = {"script", "mp4", "srt"}

ResponseUsable(resp) == resp.kind = "content" /\ Strip(resp.content) # <<>>

\* C9: making the script of the response never raises out of the step (only
\* writing the file can fail), the script is not empty, and unless the
\* response held usable content it is the template for the topic.
ScriptNeverFails ==
    [][pc = "script_response" =>
        /\ error' \in {"none", "write_script"}
        /\ script' # <<>>
        /\ ~ResponseUsable(ollama) => script' = script_from_template(topic)
        /\ ResponseUsable(ollama) => script' = Strip(ollama.content)]_vars

\* C9 witness: the template is handed to speech synthesis
TemplateHandedToTts == pc = "tts" /\ script = script_from_template(topic)

TtsForcedSay(a, r) ==
    IF a.darwin THEN r = [tried |-> <<"say">>, ok |-> a.sayOk]
    ELSE r = [tried |-> <<>>, ok |-> FALSE]
TtsForcedEdge(a, r) == r = [tried |-> <<"edge">>, ok |-> a.edgeOk]
TtsAuto(a, r) ==
    IF a.edgeOk THEN r = [tried |-> <<"edge">>, ok |-> TRUE]
    ELSE IF a.darwin THEN r = [tried |-> <<"edge", "say">>, ok |-> a.sayOk]
    ELSE r = [tried |-> <<"edge">>, ok |-> FALSE]

\* C10 (as stated): "edge" runs the cloud engine alone, "say" the local
\* engine alone (an error off macOS), no setting the cloud engine and then,
\* if that failed and the platform is macOS, the local engine.
TtsThreeModes ==
    ttsPc = "done" =>
        /\ ttsArgs.backend = "edge" => TtsForcedEdge(ttsArgs, ttsRes)
        /\ ttsArgs.backend = "say" => TtsForcedSay(ttsArgs, ttsRes)
        /\ ttsArgs.backend = "" => TtsAuto(ttsArgs, ttsRes)

\* C10 (amended): as stated for main.py; in make_video.py "say" is forced
\* as stated, and "edge", like no setting, runs the cloud engine and then,
\* if that failed and the platform is macOS, the local engine.
TtsModesPerProgram ==
    ttsPc = "done" =>
        /\ ttsArgs.backend = "edge" =>
            IF ttsArgs.variant = "main" THEN TtsForcedEdge(ttsArgs, ttsRes)
            ELSE TtsAuto(ttsArgs, ttsRes)
        /\ ttsArgs.backend = "say" => TtsForcedSay(ttsArgs, ttsRes)
        /\ ttsArgs.backend = "" => TtsAuto(ttsArgs, ttsRes)

\* C10 witness: main.py, "edge" forced on macOS, the cloud engine failed and
\* the local engine was not run
ForcedEdgeFailedNoFallback ==
    /\ ttsPc = "done" /\ ttsArgs.variant = "main" /\ ttsArgs.backend = "edge"
    /\ ttsArgs.darwin /\ ~ttsArgs.edgeOk
    /\ ttsRes = [tried |-> <<"edge">>, ok |-> FALSE]

OkIndices == {i \in 1..Len(bvSeen) : bvSeen[i].res = "ok"}

\* the accumulated segments are, in candidate order, those of the decodable
\* candidates visited; the running total before the last of them is below
\* TARGET_SECONDS; the loop goes on only below TARGET_SECONDS and is left
\* only with the total at or above it or with every candidate visited
AccumulatedInOrder ==
    /\ bvI = Len(bvSeen) /\ bvI <= clips
    /\ total = SumLen(vclips)
    /\ {vclips[k].clip : k \in 1..Len(vclips)} = OkIndices
    /\ \A k \in 1..(Len(vclips) - 1) : vclips[k].clip < vclips[k + 1].clip
    /\ \A k \in 1..Len(vclips) :
        vclips[k].len = SubclipEnd(bvSeen[vclips[k].clip].dur)
    /\ vclips # <<>> =>
        SumLen(SubSeq(vclips, 1, Len(vclips) - 1)) < TARGET_SECONDS
    /\ bvPc = "loop" => total < TARGET_SECONDS /\ bvI < clips
    /\ bvPc \in {"assemble", "returned"} =>
        total >= TARGET_SECONDS \/ bvI = clips
\* C11: candidates are visited in the given order, one per iteration; one
\* that fails to decode is skipped (no segment, no exception) and the loop
\* goes on; the accumulated segments are those of the decodable candidates
\* up to and including the first at which the running total reaches
\* TARGET_SECONDS, or of all of them if it never does.
VisitsStopAtTarget ==
    /\ []AccumulatedInOrder
    /\ [][bvPc = "loop" =>
            /\ bvPc' \in {"loop", "assemble"}
            /\ bvI' = bvI + 1
            /\ bvSeen'[bvI'].res # "ok" => vclips' = vclips]_vars

\* C11 witness: the loop left at the third of four candidates, the total
\* having reached TARGET_SECONDS there and not before
StoppedBeforeLastCandidate ==
    /\ bvPc = "returned" /\ clips = 4 /\ bvI = 3
    /\ Len(vclips) = 3 /\ total = 3 * MAX_CLIP

\* C12 (as stated): when build_video has returned or raised, every handle
\* it opened is closed: the audio track, every opened candidate clip, the
\* concatenated video.
HandlesReleased == BvEnded => handles = NoHandles

====
